---- MODULE Spec2Model ----
(***************************************************************************)
(* Model of spelling-checker/app.js: a text editor whose buffer is sent to *)
(* a remote checking service; the returned matches are drawn as <mark>     *)
(* spans in an overlay and as suggestion cards in a panel, and a click on  *)
(* a replacement button splices the buffer and re-checks it.               *)
(*                                                                         *)
(* A JavaScript string is a sequence of one-character strings.             *)
(***************************************************************************)
EXTENDS Integers, Sequences, FiniteSets, TLC

(***************************************************************************)
(* Bounds of the model.                                                    *)
(***************************************************************************)
\* longest buffer the user types or a replacement may produce
MaxLen == 2
\* most requests in flight at once
MaxPending == 2
\* most issues in one response of the service
MaxIssues == 2
\* longest replacement list of one issue (the panel shows 5 of them)
MaxRepl == 6

\* the longest buffer reached by typing
MaxTyped == 4

\* app.js:176  match.replacements.slice(0, 5)
ShownReplacements == 5

(***************************************************************************)
(* String primitives of the host language.                                 *)
(***************************************************************************)
Min(a, b) == IF a < b THEN a ELSE b

Max(a, b) == IF a > b THEN a ELSE b

\* String.prototype.slice(a, b) for a, b >= 0: both ends clamped to the
\* length, empty when the start is not before the end.
Slice(s, a, b) ==
    LET from == Min(a, Len(s))
        to   == Min(b, Len(s))
    IN  IF from >= to THEN << >> ELSE SubSeq(s, from + 1, to)

\* String.prototype.substring(a, b) for a, b >= 0: both ends clamped to the
\* length, and swapped when the start is after the end.
Substring(s, a, b) ==
    LET x == Min(a, Len(s))
        y == Min(b, Len(s))
    IN  IF Min(x, y) = Max(x, y) THEN << >>
        ELSE SubSeq(s, Min(x, y) + 1, Max(x, y))

\* the characters \s matches and trim() removes
IsSpace(c) == c \in {" ", "\n", "\t"}

RECURSIVE TrimStart(_)
TrimStart(s) ==
    IF s = << >> THEN << >>
    ELSE IF IsSpace(Head(s)) THEN TrimStart(Tail(s)) ELSE s

RECURSIVE TrimEnd(_)
TrimEnd(s) ==
    IF s = << >> THEN << >>
    ELSE IF IsSpace(s[Len(s)]) THEN TrimEnd(SubSeq(s, 1, Len(s) - 1)) ELSE s

\* String.prototype.trim()
Trim(s) == TrimEnd(TrimStart(s))

\* String.prototype.split(/\s+/): the pieces between maximal runs of
\* whitespace; a leading or trailing run leaves an empty piece.
RECURSIVE SplitSpaces(_, _, _)
SplitSpaces(s, cur, inRun) ==
    IF s = << >> THEN << cur >>
    ELSE IF IsSpace(Head(s))
         THEN IF inRun THEN SplitSpaces(Tail(s), cur, TRUE)
              ELSE << cur >> \o SplitSpaces(Tail(s), << >>, TRUE)
         ELSE SplitSpaces(Tail(s), Append(cur, Head(s)), FALSE)

\* String.prototype.replace(/c/g, by) for a one-character pattern
RECURSIVE ReplaceAll(_, _, _)
ReplaceAll(s, c, by) ==
    IF s = << >> THEN << >>
    ELSE (IF Head(s) = c THEN by ELSE << Head(s) >>) \o ReplaceAll(Tail(s), c, by)

\* String.prototype.endsWith('\n')
EndsWithNewline(s) == Len(s) > 0 /\ s[Len(s)] = "\n"

\* a faulty variant: the ampersand is replaced last, so the ampersands of
\* the other entities are escaped again
escapeHtmlAmpLast(text) ==
    ReplaceAll(ReplaceAll(ReplaceAll(ReplaceAll(ReplaceAll(text,
        "<", << "&", "l", "t", ";" >>),
        ">", << "&", "g", "t", ";" >>),
        "\"", << "&", "q", "u", "o", "t", ";" >>),
        "'", << "&", "#", "0", "3", "9", ";" >>),
        "&", << "&", "a", "m", "p", ";" >>)

(***************************************************************************)
(* escapeHtml (app.js:43-50): five global replacements, & first.           *)
(***************************************************************************)
escapeHtml(text) ==
    ReplaceAll(ReplaceAll(ReplaceAll(ReplaceAll(ReplaceAll(text,
        "&", << "&", "a", "m", "p", ";" >>),
        "<", << "&", "l", "t", ";" >>),
        ">", << "&", "g", "t", ";" >>),
        "\"", << "&", "q", "u", "o", "t", ";" >>),
        "'", << "&", "#", "0", "3", "9", ";" >>)

(***************************************************************************)
(* updateStats (app.js:31-37): the two labels shown under the editor.      *)
(***************************************************************************)
\* a faulty variant: the text is split without being trimmed
CountWordsNoTrim(text) ==
    IF Trim(text) = << >> THEN 0 ELSE Len(SplitSpaces(text, << >>, FALSE))

\* app.js:35
CountWords(text) ==
    IF Trim(text) = << >> THEN 0 ELSE Len(SplitSpaces(Trim(text), << >>, FALSE))

\* app.js:33  `${n} character${n !== 1 ? 's' : ''}`
CharLabel(text) ==
    [n |-> Len(text), unit |-> IF Len(text) # 1 THEN "characters" ELSE "character"]

\* app.js:36  `${n} word${n !== 1 ? 's' : ''}`
WordLabel(text) ==
    [n |-> CountWords(text), unit |-> IF CountWords(text) # 1 THEN "words" ELSE "word"]

(***************************************************************************)
(* Matches of the checking service (the response shape read at app.js:78,  *)
(* 113-121 and 163-177).  rule.issueType is the field issueType here.      *)
(***************************************************************************)
Match(offset, length, issueType, ctxText, replacements) ==
    [offset       |-> offset,
     length       |-> length,
     issueType    |-> issueType,
     message      |-> << "m", "<" >>,
     context      |-> [text |-> ctxText, offset |-> offset, length |-> length],
     replacements |-> replacements]

(***************************************************************************)
(* applyHighlights (app.js:103-133).  The overlay markup is a sequence of  *)
(* segments: escaped plain text, a <mark> element with its class, its      *)
(* data-index and its escaped body, and the trailing <br>.  The field      *)
(* issue of a mark is not markup: it records which element of              *)
(* currentMatches the mark was drawn from (sortedMatches holds references  *)
(* to the same objects), 1-based.                                          *)
(***************************************************************************)
TextSeg(body) ==
    [kind |-> "text", cls |-> "", index |-> -1, issue |-> 0, body |-> body]

MarkSeg(cls, index, issue, body) ==
    [kind |-> "mark", cls |-> cls, index |-> index, issue |-> issue, body |-> body]

BrSeg ==
    [kind |-> "br", cls |-> "", index |-> -1, issue |-> 0, body |-> << >>]

\* appending a string to the markup; appending '' adds nothing
Plain(body) == IF body = << >> THEN << >> ELSE << TextSeg(body) >>

\* the position at which Array.prototype.sort, being stable, leaves element
\* i among the already ordered elements of order: after every element whose
\* offset is not greater.
RECURSIVE InsertByOffset(_, _, _)
InsertByOffset(ms, order, i) ==
    IF order = << >> THEN << i >>
    ELSE IF ms[order[Len(order)]].offset - ms[i].offset <= 0
         THEN Append(order, i)
         ELSE Append(InsertByOffset(ms, SubSeq(order, 1, Len(order) - 1), i),
                     order[Len(order)])

RECURSIVE SortPrefix(_, _)
SortPrefix(ms, n) ==
    IF n = 0 THEN << >> ELSE InsertByOffset(ms, SortPrefix(ms, n - 1), n)

\* a faulty variant: an unstable sort, equal offsets come out reversed
RECURSIVE InsertByOffsetUnstable(_, _, _)
InsertByOffsetUnstable(ms, order, i) ==
    IF order = << >> THEN << i >>
    ELSE IF ms[order[Len(order)]].offset - ms[i].offset < 0
         THEN Append(order, i)
         ELSE Append(InsertByOffsetUnstable(ms, SubSeq(order, 1, Len(order) - 1), i),
                     order[Len(order)])

RECURSIVE SortPrefixUnstable(_, _)
SortPrefixUnstable(ms, n) ==
    IF n = 0 THEN << >>
    ELSE InsertByOffsetUnstable(ms, SortPrefixUnstable(ms, n - 1), n)

sortedMatchesUnstable(ms) == SortPrefixUnstable(ms, Len(ms))

\* app.js:109  [...currentMatches].sort((a, b) => a.offset - b.offset), as
\* the positions in currentMatches of the elements of the sorted copy
sortedMatches(ms) == SortPrefix(ms, Len(ms))

\* app.js:117
typeClass(match) ==
    IF match.issueType = "misspelling" THEN "misspelling" ELSE "grammar"

\* app.js:111-122, the forEach from its k-th element on
RECURSIVE HighlightWalk(_, _, _, _, _)
HighlightWalk(text, ms, order, k, lastIndex) ==
    IF k > Len(order)
    THEN \* app.js:125
         Plain(escapeHtml(Slice(text, lastIndex, Len(text))))
    ELSE LET match     == ms[order[k]]
             issueWord == escapeHtml(Slice(text, match.offset,
                                           match.offset + match.length))
         IN  Plain(escapeHtml(Slice(text, lastIndex, match.offset)))
             \o << MarkSeg(typeClass(match), k - 1, order[k], issueWord) >>
             \o HighlightWalk(text, ms, order, k + 1, match.offset + match.length)

\* a faulty variant: the <br> of a final newline is left out
applyHighlightsNoBr(text, ms) ==
    HighlightWalk(text, ms, sortedMatches(ms), 1, 0)

applyHighlights(text, ms) ==
    HighlightWalk(text, ms, sortedMatches(ms), 1, 0)
    \o (IF EndsWithNewline(text) THEN << BrSeg >> ELSE << >>)

\* clearHighlights (app.js:39-41)
clearHighlights(text) == Plain(escapeHtml(text))

(***************************************************************************)
(* renderResults (app.js:135-195): the badge and the suggestion panel.     *)
(***************************************************************************)
\* app.js:176-177, the opening tag of one button: the inline handler
\*   onclick="applyReplacement(${index}, '${rep.value.replace(/'/g, "\\'")}')"
\* kept as the index and the text written between the two quotes, and the
\* label escapeHtml(rep.value).
Button(index, value) ==
    [index   |-> index,
     literal |-> ReplaceAll(value, "'", << "\\", "'" >>),
     label   |-> escapeHtml(value)]

\* app.js:176  replacements.slice(0, 5).map(...)
Buttons(index, replacements) ==
    [j \in 1..Min(Len(replacements), ShownReplacements) |->
        Button(index, replacements[j])]

\* app.js:163-191, the card of the match at position index (0-based)
Card(match, index) ==
    LET isMisspelling == match.issueType = "misspelling"
        ctxText  == escapeHtml(match.context.text)
        ctxStart == match.context.offset
        ctxLen   == match.context.length
    IN  [cls       |-> IF isMisspelling THEN "error" ELSE "warning",
         id        |-> index,
         issueType |-> IF isMisspelling THEN "Spelling" ELSE "Grammar",
         message   |-> escapeHtml(match.message),
         beforeCtx |-> Substring(ctxText, 0, ctxStart),
         errCtx    |-> Substring(ctxText, ctxStart, ctxStart + ctxLen),
         afterCtx  |-> Substring(ctxText, ctxStart + ctxLen, Len(ctxText)),
         buttons   |-> Buttons(index, match.replacements)]

\* app.js:161-194
Cards(ms) == [k \in 1..Len(ms) |-> Card(ms[k], k - 1)]

\* the panel: its static content, the empty state of app.js:138-146, or cards
PanelInitial == [state |-> "initial", cards |-> << >>]

PanelEmpty == [state |-> "empty", cards |-> << >>]

PanelCards(ms) == [state |-> "cards", cards |-> Cards(ms)]

\* app.js:136-148 and 194
renderPanel(ms) == IF Len(ms) = 0 THEN PanelEmpty ELSE PanelCards(ms)

\* app.js:154
Misspellings(ms) == Cardinality({k \in 1..Len(ms) : ms[k].issueType = "misspelling"})

\* a faulty variant: the empty branch leaves the badge as it is
renderBadgeNeverHides(old, ms) ==
    IF Len(ms) = 0
    THEN old
    ELSE [hidden |-> FALSE, text |-> Len(ms), warning |-> Misspellings(ms) = 0]

\* a faulty variant: the warning class is added and never removed
renderBadgeKeepsWarning(old, ms) ==
    IF Len(ms) = 0
    THEN [old EXCEPT !.hidden = TRUE]
    ELSE [hidden |-> FALSE, text |-> Len(ms),
          warning |-> old.warning \/ Misspellings(ms) = 0]

\* app.js:137 and 150-159: the badge keeps its text and its warning class
\* when it is hidden
renderBadge(old, ms) ==
    IF Len(ms) = 0
    THEN [old EXCEPT !.hidden = TRUE]
    ELSE [hidden |-> FALSE, text |-> Len(ms), warning |-> Misspellings(ms) = 0]

(***************************************************************************)
(* What a click on a replacement button runs.  The browser reads the       *)
(* onclick attribute up to the first double quote and compiles it; the     *)
(* string literal ends at the first quote that no backslash precedes, and  *)
(* a backslash before a quote makes the quote part of the string.  The     *)
(* handler calls applyReplacement only if what is left after the literal   *)
(* is ")".  Replacement values here hold no backslash and no ampersand,    *)
(* so escape sequences and character references do not arise.              *)
(***************************************************************************)
\* the attribute value as the markup parser delimits it
RECURSIVE UpToDoubleQuote(_)
UpToDoubleQuote(s) ==
    IF s = << >> \/ Head(s) = "\"" THEN << >>
    ELSE << Head(s) >> \o UpToDoubleQuote(Tail(s))

\* the string literal opened before s: [ok, value, rest]
RECURSIVE ReadLiteral(_, _)
ReadLiteral(s, acc) ==
    IF s = << >> THEN [ok |-> FALSE, value |-> acc, rest |-> << >>]
    ELSE IF Head(s) = "'" THEN [ok |-> TRUE, value |-> acc, rest |-> Tail(s)]
    ELSE IF Head(s) = "\n" THEN [ok |-> FALSE, value |-> acc, rest |-> s]
    ELSE IF Head(s) = "\\"
         THEN IF Tail(s) = << >>
              THEN [ok |-> FALSE, value |-> acc, rest |-> << >>]
              ELSE ReadLiteral(Tail(Tail(s)), Append(acc, Head(Tail(s))))
         ELSE ReadLiteral(Tail(s), Append(acc, Head(s)))

\* the call a click on the button makes: [ok, index, text]; ok is FALSE when
\* the handler does not compile and the click does nothing
ButtonCall(button) ==
    LET written == button.literal \o << "'", ")" >>
        source  == IF \E k \in 1..Len(button.literal) : button.literal[k] = "\""
                   THEN UpToDoubleQuote(button.literal)
                   ELSE written
        lit     == ReadLiteral(source, << >>)
    IN  [ok    |-> lit.ok /\ lit.rest = << ")" >>,
         index |-> button.index,
         text  |-> IF lit.ok THEN lit.value ELSE << >>]

(***************************************************************************)
(* Inputs: what the user can type and what the service can answer.         *)
(***************************************************************************)
\* characters of a typed buffer
Chars == {"a", " "}

\* the strings over cs of length at most n
StringsUpTo(cs, n) == UNION {[1..k -> cs] : k \in 0..n}

Buffers == StringsUpTo(Chars, MaxLen)

\* the replacement candidates of a match of the service: a blank and a word
Candidates == << << " " >>, << "a", "a" >> >>

\* the spans [offset, offset + length) of a text, in ascending order
Spans(text) ==
    {sp \in (0..Len(text)) \X (1..Len(text)) : sp[1] + sp[2] <= Len(text)}

SpanBefore(x, y) == x[1] < y[1] \/ (x[1] = y[1] /\ x[2] < y[2])

\* the match the service reports for a span of the text it was sent
ServiceMatch(text, sp) ==
    Match(sp[1], sp[2], IF sp[2] = 1 THEN "misspelling" ELSE "grammar",
          text, Candidates)

\* the answers of the service to a text: at most MaxIssues matches, each on
\* a span of that text, here in ascending span order
ServiceAnswers(text) ==
    {ms \in UNION {[1..n -> {ServiceMatch(text, sp) : sp \in Spans(text)}] :
                     n \in 0..MaxIssues} :
        \A k \in 1..(Len(ms) - 1) :
            SpanBefore(<< ms[k].offset, ms[k].length >>,
                       << ms[k + 1].offset, ms[k + 1].length >>)}

(***************************************************************************)
(* State (app.js:2-15).                                                    *)
(***************************************************************************)
VARIABLES
    editorValue,      \* editor.value
    currentMatches,   \* currentMatches when it holds an array
    matchesDefined,   \* FALSE when currentMatches holds undefined
    highlights,       \* highlights.innerHTML
    suggestionsList,  \* suggestionsList.innerHTML
    badge,            \* the badge: hidden class, text, warning class
    checkBtnDisabled, \* checkBtn.disabled
    loaderHidden,     \* loader has the class hidden
    charCount,        \* charCount.textContent
    wordCount,        \* wordCount.textContent
    pending,          \* the fetch calls not yet settled, oldest first
    lastEvent,        \* the event handled last and what it was given
    lastSuccess       \* the matches of the response last handled without
                      \* an error, if there was one (not program state)

vars == << editorValue, currentMatches, matchesDefined, highlights,
           suggestionsList, badge, checkBtnDisabled, loaderHidden,
           charCount, wordCount, pending, lastEvent, lastSuccess >>

outputs == << highlights, suggestionsList, badge >>

\* op names the handler; index and text are the arguments of applyReplacement,
\* matches is the list a successful response carried and alerts is the
\* number of alert() calls the handler made (app.js:85)
Event(op, index, text, matches, alerts) ==
    [op |-> op, index |-> index, text |-> text, matches |-> matches,
     alerts |-> alerts]

NoSuccess == [any |-> FALSE, matches |-> << >>]

\* the page as loaded: an empty editor, a hidden loader and badge, the
\* static labels and panel of the page, and the initial sync of app.js:227
Init ==
    /\ editorValue = << >>
    /\ currentMatches = << >>
    /\ matchesDefined = TRUE
    /\ highlights = clearHighlights(<< >>)
    /\ suggestionsList = PanelInitial
    /\ badge = [hidden |-> TRUE, text |-> 0, warning |-> FALSE]
    /\ checkBtnDisabled = FALSE
    /\ loaderHidden = TRUE
    /\ charCount = CharLabel(<< >>)
    /\ wordCount = WordLabel(<< >>)
    /\ pending = << >>
    /\ lastEvent = Event("load", -1, << >>, << >>, 0)
    /\ lastSuccess = NoSuccess

(***************************************************************************)
(* Handlers.                                                               *)
(***************************************************************************)
\* the input listener (app.js:24-29) after the user changed the buffer to v
Input(v) ==
    /\ editorValue' = v
    /\ charCount' = CharLabel(v)
    /\ wordCount' = WordLabel(v)
    /\ highlights' = clearHighlights(v)
    /\ lastEvent' = Event("input", -1, << >>, << >>, 0)
    /\ UNCHANGED << currentMatches, matchesDefined, suggestionsList, badge,
                    checkBtnDisabled, loaderHidden, pending, lastSuccess >>

\* a faulty variant: only the empty text is held back
IsBlankNoTrim(text) == text = << >>

\* app.js:54  if (!text.trim()) return;
IsBlank(text) == Trim(text) = << >>

\* checkText (app.js:52-71) up to its first await, on the buffer text:
\* nothing on a blank text, else setLoading(true) and the fetch
checkTextSends(text) == ~IsBlank(text)

checkText(text) ==
    IF checkTextSends(text)
    THEN /\ Len(pending) < MaxPending
         /\ loaderHidden' = FALSE
         /\ checkBtnDisabled' = TRUE
         /\ pending' = Append(pending, [text |-> text])
    ELSE UNCHANGED << loaderHidden, checkBtnDisabled, pending >>

\* a click on the check button (app.js:224); a disabled button gets none
ClickCheck ==
    /\ ~checkBtnDisabled
    /\ checkText(editorValue)
    /\ lastEvent' = Event("check", -1, << >>, << >>, 0)
    /\ UNCHANGED << editorValue, currentMatches, matchesDefined, outputs,
                    charCount, wordCount, lastSuccess >>

\* a faulty variant: the tail starts at the offset, the replaced span stays
splicedKeepsSpan(text, match, replacementText) ==
    Substring(text, 0, match.offset) \o replacementText
    \o Substring(text, match.offset, Len(text))

\* app.js:203
spliced(text, match, replacementText) ==
    Substring(text, 0, match.offset) \o replacementText
    \o Substring(text, match.offset + match.length, Len(text))

\* a faulty variant: the re-check runs before the editor gets the new text
applyReplacementChecksFirst(matchIndex, replacementText) ==
    IF ~matchesDefined \/ matchIndex + 1 > Len(currentMatches)
    THEN /\ lastEvent' = Event("replaceThrew", matchIndex, replacementText, << >>, 0)
         /\ UNCHANGED << editorValue, currentMatches, matchesDefined, outputs,
                         checkBtnDisabled, loaderHidden, charCount, wordCount,
                         pending, lastSuccess >>
    ELSE LET newText == spliced(editorValue, currentMatches[matchIndex + 1],
                                replacementText)
         IN  /\ Len(newText) <= MaxLen
             /\ editorValue' = newText
             /\ charCount' = CharLabel(newText)
             /\ wordCount' = WordLabel(newText)
             /\ checkText(editorValue)
             /\ lastEvent' = Event("replace", matchIndex, replacementText, << >>, 0)
             /\ UNCHANGED << currentMatches, matchesDefined, outputs, lastSuccess >>

\* window.applyReplacement (app.js:198-209)
applyReplacement(matchIndex, replacementText) ==
    IF ~matchesDefined \/ matchIndex + 1 > Len(currentMatches)
    THEN \* app.js:199 or 203 throws a TypeError
         /\ lastEvent' = Event("replaceThrew", matchIndex, replacementText, << >>, 0)
         /\ UNCHANGED << editorValue, currentMatches, matchesDefined, outputs,
                         checkBtnDisabled, loaderHidden, charCount, wordCount,
                         pending, lastSuccess >>
    ELSE LET newText == spliced(editorValue, currentMatches[matchIndex + 1],
                                replacementText)
         IN  /\ Len(newText) <= MaxLen
             /\ editorValue' = newText
             /\ charCount' = CharLabel(newText)
             /\ wordCount' = WordLabel(newText)
             /\ checkText(newText)
             /\ lastEvent' = Event("replace", matchIndex, replacementText, << >>, 0)
             /\ UNCHANGED << currentMatches, matchesDefined, outputs, lastSuccess >>

\* a click on the j-th button of the k-th card of the panel (app.js:177)
ClickReplacement(k, j) ==
    /\ k \in 1..Len(suggestionsList.cards)
    /\ j \in 1..Len(suggestionsList.cards[k].buttons)
    /\ LET call == ButtonCall(suggestionsList.cards[k].buttons[j])
       IN  /\ call.ok
           /\ applyReplacement(call.index, call.text)

\* pending without its k-th request
Settled(k) == SubSeq(pending, 1, k - 1) \o SubSeq(pending, k + 1, Len(pending))

\* a faulty variant: the request settles and the loading state stays
finallyKeepsLoading(k) ==
    /\ pending' = Settled(k)
    /\ UNCHANGED << loaderHidden, checkBtnDisabled >>

\* setLoading(false) in the finally of app.js:86-88
finally(k) ==
    /\ loaderHidden' = TRUE
    /\ checkBtnDisabled' = FALSE
    /\ pending' = Settled(k)

\* the k-th pending request is answered with the matches ms (app.js:73-81)
Succeed(k, ms) ==
    /\ k \in 1..Len(pending)
    /\ currentMatches' = ms
    /\ matchesDefined' = TRUE
    /\ suggestionsList' = renderPanel(ms)
    /\ badge' = renderBadge(badge, ms)
    /\ highlights' = applyHighlights(editorValue, ms)
    /\ finally(k)
    /\ lastEvent' = Event("success", -1, << >>, ms, 0)
    /\ lastSuccess' = [any |-> TRUE, matches |-> ms]
    /\ UNCHANGED << editorValue, charCount, wordCount >>

\* a faulty variant: the catch block sends the failed request again
FailRetries(k, why) ==
    /\ k \in 1..Len(pending)
    /\ loaderHidden' = FALSE
    /\ checkBtnDisabled' = TRUE
    /\ pending' = Append(Settled(k), pending[k])
    /\ lastEvent' = Event(why, -1, << >>, << >>, 1)
    /\ UNCHANGED << editorValue, currentMatches, matchesDefined, outputs,
                    charCount, wordCount, lastSuccess >>

\* a faulty variant: the catch block empties the Issue Set
FailClearsMatches(k, why) ==
    /\ k \in 1..Len(pending)
    /\ finally(k)
    /\ currentMatches' = << >>
    /\ lastEvent' = Event(why, -1, << >>, << >>, 1)
    /\ UNCHANGED << editorValue, matchesDefined, outputs, charCount, wordCount,
                    lastSuccess >>

\* the k-th pending request fails: fetch rejects ("transport") or the
\* response is not ok ("status"); app.js:73-75 and 83-85
Fail(k, why) ==
    /\ k \in 1..Len(pending)
    /\ finally(k)
    /\ lastEvent' = Event(why, -1, << >>, << >>, 1)
    /\ UNCHANGED << editorValue, currentMatches, matchesDefined, outputs,
                    charCount, wordCount, lastSuccess >>

\* the k-th pending request gets an ok response whose body has no matches
\* list: app.js:78 stores undefined and app.js:136 throws into the catch
NoMatchesList(k) ==
    /\ k \in 1..Len(pending)
    /\ currentMatches' = << >>
    /\ matchesDefined' = FALSE
    /\ finally(k)
    /\ lastEvent' = Event("nolist", -1, << >>, << >>, 1)
    /\ UNCHANGED << editorValue, outputs, charCount, wordCount, lastSuccess >>

\* the k-th pending request gets an ok response whose body is not JSON:
\* app.js:77 rejects into the catch
Unparseable(k) ==
    /\ k \in 1..Len(pending)
    /\ finally(k)
    /\ lastEvent' = Event("unparseable", -1, << >>, << >>, 1)
    /\ UNCHANGED << editorValue, currentMatches, matchesDefined, outputs,
                    charCount, wordCount, lastSuccess >>

Next ==
    \/ \E v \in Buffers : Input(v)
    \/ ClickCheck
    \/ \E k \in 1..Len(suggestionsList.cards) :
          \E j \in 1..Len(suggestionsList.cards[k].buttons) : ClickReplacement(k, j)
    \/ \E k \in 1..Len(pending) :
          \E ms \in ServiceAnswers(pending[k].text) : Succeed(k, ms)
    \/ \E k \in 1..Len(pending), why \in {"transport", "status"} : Fail(k, why)
    \/ \E k \in 1..Len(pending) : NoMatchesList(k)
    \/ \E k \in 1..Len(pending) : Unparseable(k)

Spec == Init /\ [][Next]_vars

\* the request sent first among the outstanding ones settles, with any
\* outcome (app.js:64-88)
SettleOldest ==
    /\ pending # << >>
    /\ pending' = Tail(pending)
    /\ \/ Unparseable(1)
       \/ NoMatchesList(1)
       \/ \E why \in {"transport", "status"} : Fail(1, why)
       \/ \E ms \in ServiceAnswers(pending[1].text) : Succeed(1, ms)

\* every outstanding request eventually settles: the promise of fetch is
\* resolved or rejected by the browser
FairSpec == Init /\ [][Next]_vars /\ WF_vars(SettleOldest)

(***************************************************************************)
(* The renderers on their own: a request for the text SentText is in       *)
(* flight, the user has meanwhile typed any buffer, and the service        *)
(* answers with any list of matches, in any order, overlapping or out of   *)
(* range.  The one step is the successful response.                        *)
(***************************************************************************)
RenderChars == {"a", "<", "&", "\n"}

RenderBuffers == StringsUpTo(RenderChars, MaxLen)

SentText == << "a" >>

\* matches that differ in their span; a span may end one character behind
\* the longest buffer
SpanMatches ==
    {Match(sp[1], sp[2], IF sp[2] = 1 THEN "misspelling" ELSE "grammar",
           SentText, << >>) :
        sp \in {x \in (0..MaxLen) \X (1..MaxLen) : x[1] + x[2] <= MaxLen + 1}}

SpanAnswers == UNION {[1..n -> SpanMatches] : n \in 0..MaxIssues}

\* replacement values: a word, a word with an apostrophe, a double quote
CandidateValues == << << "a" >>, << "a", "'" >>, << "\"" >> >>

CandidateList(n) == [j \in 1..n |-> CandidateValues[(j % 3) + 1]]

\* matches that differ in their type and their replacement list
CandidateMatches ==
    {Match(0, 1, type, SentText, CandidateList(n)) :
        type \in {"misspelling", "grammar"}, n \in 0..MaxRepl}

CandidateAnswers == UNION {[1..n -> CandidateMatches] : n \in 0..MaxIssues}

RenderAnswers(text) ==
    SpanAnswers \cup (IF text = SentText THEN CandidateAnswers ELSE {})

RenderInit ==
    /\ editorValue \in RenderBuffers
    /\ currentMatches = << >>
    /\ matchesDefined = TRUE
    /\ highlights = clearHighlights(editorValue)
    /\ suggestionsList = PanelInitial
    /\ badge = [hidden |-> TRUE, text |-> 0, warning |-> FALSE]
    /\ checkBtnDisabled = TRUE
    /\ loaderHidden = FALSE
    /\ charCount = CharLabel(editorValue)
    /\ wordCount = WordLabel(editorValue)
    /\ pending = << [text |-> SentText] >>
    /\ lastEvent = Event("input", -1, << >>, << >>, 0)
    /\ lastSuccess = NoSuccess

RenderNext == \E ms \in RenderAnswers(editorValue) : Succeed(1, ms)

RenderSpec == RenderInit /\ [][RenderNext]_vars

(***************************************************************************)
(* The input listener on its own: a check of CheckedText has just been     *)
(* rendered, with any answer of the service, and the user types and        *)
(* deletes one character at a time, markup characters and line breaks      *)
(* included.                                                               *)
(***************************************************************************)
TypedChars == {"a", " ", "\n", "<", "&"}

CheckedText == << "a", "a" >>

\* the buffers one keystroke away from text
Keystrokes(text) ==
    {Append(text, c) : c \in IF Len(text) < MaxTyped THEN TypedChars ELSE {}}
        \cup (IF text = << >> THEN {} ELSE {SubSeq(text, 1, Len(text) - 1)})

TypingInit ==
    \E ms \in ServiceAnswers(CheckedText) :
        /\ editorValue = CheckedText
        /\ currentMatches = ms
        /\ matchesDefined = TRUE
        /\ highlights = applyHighlights(CheckedText, ms)
        /\ suggestionsList = renderPanel(ms)
        /\ badge = renderBadge([hidden |-> TRUE, text |-> 0, warning |-> FALSE], ms)
        /\ checkBtnDisabled = FALSE
        /\ loaderHidden = TRUE
        /\ charCount = CharLabel(CheckedText)
        /\ wordCount = WordLabel(CheckedText)
        /\ pending = << >>
        /\ lastEvent = Event("success", -1, << >>, ms, 0)
        /\ lastSuccess = [any |-> TRUE, matches |-> ms]

TypingNext == \E v \in Keystrokes(editorValue) : Input(v)

TypingSpec == TypingInit /\ [][TypingNext]_vars

(***************************************************************************)
(* Vocabulary of the properties.                                           *)
(***************************************************************************)
\* empty or made of whitespace only
WhitespaceOnly(text) == \A i \in 1..Len(text) : text[i] \in {" ", "\n", "\t"}

\* the maximal runs of non-whitespace characters of a text
WordStarts(text) ==
    {i \in 1..Len(text) :
        /\ text[i] \notin {" ", "\n", "\t"}
        /\ (i = 1 \/ text[i - 1] \in {" ", "\n", "\t"})}

\* B[a:b] for 0 <= a: the characters at the positions a .. b-1 that exist
Part(B, a, b) ==
    LET hi == IF b > Len(B) THEN Len(B) ELSE b
    IN  [i \in 1..(hi - a) |-> B[a + i]]

\* the <mark> elements of an overlay, in document order
Marks(overlay) == SelectSeq(overlay, LAMBDA seg : seg.kind = "mark")

\* the text of an overlay once the <mark> and </mark> tags are taken out
RECURSIVE Stripped(_)
Stripped(overlay) ==
    IF overlay = << >> THEN << >>
    ELSE (IF Head(overlay).kind = "br" THEN << "<", "b", "r", ">" >>
          ELSE Head(overlay).body) \o Stripped(Tail(overlay))

\* the entity a character is shown as in HTML text
Entity(c) ==
    CASE c = "&" -> << "&", "a", "m", "p", ";" >>
      [] c = "<" -> << "&", "l", "t", ";" >>
      [] c = ">" -> << "&", "g", "t", ";" >>
      [] c = "\"" -> << "&", "q", "u", "o", "t", ";" >>
      [] c = "'" -> << "&", "#", "0", "3", "9", ";" >>
      [] OTHER -> << c >>

\* a text with each character shown as its entity, left to right
RECURSIVE Escaped(_)
Escaped(text) ==
    IF text = << >> THEN << >> ELSE Entity(Head(text)) \o Escaped(Tail(text))

SortedNonOverlapping(ms) ==
    \A k \in 1..(Len(ms) - 1) : ms[k].offset + ms[k].length <= ms[k + 1].offset

(***************************************************************************)
(* Properties.                                                             *)
(***************************************************************************)

\* C1: in the state right after a user edit of the buffer the Issue Set
\* (currentMatches) is empty, also when an earlier check had filled it.
C1_IssueSetEmptyAfterEdit ==
    lastEvent.op = "input" => currentMatches = << >>

\* C2: a request that fails by a transport error or by a non-success status
\* leaves the Issue Set and the buffer exactly as they were just before.
C2_FailureKeepsIssueSetAndBuffer ==
    [][lastEvent'.op \in {"transport", "status"}
         => /\ editorValue' = editorValue
            /\ currentMatches' = currentMatches
            /\ matchesDefined' = matchesDefined]_vars

\* a request failed while the Issue Set held issues and the buffer had
\* since been changed to another text than the one the issues were found in
C2_Witness ==
    /\ lastEvent.op \in {"transport", "status"}
    /\ matchesDefined
    /\ Len(currentMatches) > 0
    /\ currentMatches[1].context.text # editorValue

\* C3: whenever a request is outstanding the check button is disabled and
\* the busy indicator is shown, overlapping checks included.
C3_OutstandingMeansBusy ==
    pending # << >> => (checkBtnDisabled /\ ~loaderHidden)

\* C4: no request is in flight for an empty or whitespace-only text, and a
\* check triggered by the button or by a replacement on such a buffer sends
\* nothing, does not touch the loading state and leaves the Issue Set, the
\* overlay and the panel as they were.
C4_BlankBufferSendsNothing ==
    /\ [](\A k \in 1..Len(pending) : ~WhitespaceOnly(pending[k].text))
    /\ [][(lastEvent'.op \in {"check", "replace"} /\ WhitespaceOnly(editorValue'))
            => /\ pending' = pending
               /\ checkBtnDisabled' = checkBtnDisabled
               /\ loaderHidden' = loaderHidden
               /\ currentMatches' = currentMatches
               /\ matchesDefined' = matchesDefined
               /\ highlights' = highlights
               /\ suggestionsList' = suggestionsList
               /\ badge' = badge]_vars

\* the check button was clicked on a buffer of spaces: nothing is in flight
C4_Witness ==
    /\ lastEvent.op = "check"
    /\ Len(editorValue) > 0
    /\ WhitespaceOnly(editorValue)
    /\ pending = << >>
    /\ loaderHidden

\* C5: applying replacement r to issue i of the Issue Set on buffer B gives
\* B[0:offset] + r + B[offset+length:], and the character and word counts
\* shown right after are those of that buffer.
C5_ReplacementSplicesAndCounts ==
    [][lastEvent'.op = "replace"
         => LET issue == currentMatches[lastEvent'.index + 1]
                B     == editorValue
            IN  /\ editorValue' = Part(B, 0, issue.offset) \o lastEvent'.text
                                  \o Part(B, issue.offset + issue.length, Len(B))
                /\ charCount'.n = Len(editorValue')
                /\ wordCount'.n = Cardinality(WordStarts(editorValue'))]_vars

\* the second issue was replaced, behind the start of the buffer
C5_Witness ==
    /\ lastEvent.op = "replace"
    /\ lastEvent.index = 1
    /\ matchesDefined
    /\ currentMatches[2].offset > 0
    /\ wordCount.n > 0

\* C6 as stated: every applied replacement sends a request carrying the
\* updated buffer, whatever the buffer, the issue and the replacement.
C6_ReplacementAlwaysRechecks ==
    [][lastEvent'.op = "replace"
         => pending' = Append(pending, [text |-> editorValue'])]_vars

\* C6 as amended: an applied replacement sends a request carrying the
\* updated buffer unless that buffer is empty or whitespace-only, in which
\* case it sends nothing.
C6_ReplacementRechecksNonBlank ==
    [][lastEvent'.op = "replace"
         => IF WhitespaceOnly(editorValue')
            THEN pending' = pending
            ELSE pending' = Append(pending, [text |-> editorValue'])]_vars

\* a replacement sent its re-check while an earlier request was in flight
C6_Witness ==
    /\ lastEvent.op = "replace"
    /\ ~WhitespaceOnly(editorValue)
    /\ Len(pending) = 2
    /\ pending[2].text = editorValue

\* C7: the data-index of every highlight span is the position in the Issue
\* Set of the issue the span was drawn from, so that span k and card-k are
\* the same issue, whatever the order of the Issue Set.
C7_SpanIndexIsIssuePosition ==
    lastEvent.op = "success"
        => \A k \in 1..Len(Marks(highlights)) :
              Marks(highlights)[k].index = Marks(highlights)[k].issue - 1

\* C8 as stated: for an Issue Set sorted by offset and not overlapping, the
\* overlay without its wrapper tags is escapeHtml(B), trailing newline or not.
C8_StrippedIsEscapedBuffer ==
    (lastEvent.op = "success" /\ SortedNonOverlapping(currentMatches))
        => Stripped(highlights) = escapeHtml(editorValue)

\* C8 as amended: for an Issue Set sorted by offset and not overlapping, the
\* overlay without its wrapper tags is escapeHtml(B), followed by one <br>
\* exactly when B ends with a newline.
C8_StrippedIsEscapedBufferAndBreak ==
    (lastEvent.op = "success" /\ SortedNonOverlapping(currentMatches))
        => Stripped(highlights) =
              escapeHtml(editorValue)
              \o (IF Len(editorValue) > 0 /\ editorValue[Len(editorValue)] = "\n"
                  THEN << "<", "b", "r", ">" >> ELSE << >>)

\* two issues in range, a character to escape, a final newline
C8_Witness ==
    /\ lastEvent.op = "success"
    /\ SortedNonOverlapping(currentMatches)
    /\ Len(currentMatches) = 2
    /\ editorValue = << "<", "\n" >>
    /\ currentMatches[2].offset + currentMatches[2].length <= Len(editorValue)

\* C9: the spans of the overlay are in ascending offset order whatever the
\* order of the Issue Set, issues of equal offset keep their Issue-Set
\* order, every issue has its span, and the Issue Set is still in the order
\* the service gave it.
C9_SpansInStableOffsetOrder ==
    lastEvent.op = "success"
        => LET spans == Marks(highlights)
               at(k) == currentMatches[spans[k].issue]
           IN  /\ Len(spans) = Len(currentMatches)
               /\ {spans[k].issue : k \in 1..Len(spans)} = 1..Len(currentMatches)
               /\ \A k \in 1..(Len(spans) - 1) :
                     \/ at(k).offset < at(k + 1).offset
                     \/ /\ at(k).offset = at(k + 1).offset
                        /\ spans[k].issue < spans[k + 1].issue
               /\ currentMatches = lastEvent.matches

\* the service listed a later issue first
C9_Witness ==
    /\ lastEvent.op = "success"
    /\ Len(currentMatches) = 2
    /\ currentMatches[1].offset > currentMatches[2].offset
    /\ Marks(highlights)[1].issue = 2

\* C10: for a non-empty Issue Set the panel has one card per issue in
\* service order (card k is issue k), each card has a button for each of the
\* first 5 replacements in their order and no other, and each button
\* carries the index k and its replacement text.
C10_CardsAndButtons ==
    (lastEvent.op = "success" /\ Len(currentMatches) > 0)
        => /\ suggestionsList.state = "cards"
           /\ Len(suggestionsList.cards) = Len(currentMatches)
           /\ \A k \in 1..Len(currentMatches) :
                 LET card  == suggestionsList.cards[k]
                     issue == currentMatches[k]
                     shown == IF Len(issue.replacements) > 5 THEN 5
                              ELSE Len(issue.replacements)
                 IN  /\ card.id = k - 1
                     /\ card.issueType = (IF issue.issueType = "misspelling"
                                          THEN "Spelling" ELSE "Grammar")
                     /\ Len(card.buttons) = shown
                     /\ \A j \in 1..shown :
                           /\ card.buttons[j].label = escapeHtml(issue.replacements[j])
                           /\ ButtonCall(card.buttons[j]).ok
                           /\ ButtonCall(card.buttons[j]).index = k - 1
                           /\ ButtonCall(card.buttons[j]).text = issue.replacements[j]

\* C11: whenever a successful check returns an empty Issue Set the panel is
\* exactly the empty placeholder, with no card, and the badge is hidden,
\* whatever the panel and the badge showed after earlier checks.
C11_EmptyAnswerShowsPlaceholder ==
    (lastEvent.op = "success" /\ lastEvent.matches = << >>)
        => /\ suggestionsList.state = "empty"
           /\ suggestionsList.cards = << >>
           /\ badge.hidden

\* an empty answer arrived after an earlier check had shown two issues
C11_Witness ==
    /\ lastEvent.op = "success"
    /\ lastEvent.matches = << >>
    /\ badge.text = 2
    /\ badge.hidden

\* C12: for every buffer the word count of the stats line is 0 exactly when
\* the buffer is empty or whitespace-only, and otherwise it is the number
\* of maximal runs of non-whitespace characters of the buffer.
C12_WordCountIsTokenCount ==
    /\ wordCount.n = 0 <=> WhitespaceOnly(editorValue)
    /\ wordCount.n = Cardinality(WordStarts(editorValue))

\* two words behind leading whitespace, separated by a line break
C12_Witness ==
    /\ lastEvent.op = "input"
    /\ editorValue = << " ", "a", "\n", "a" >>
    /\ wordCount.n = 2

\* C13: every request that settles, with any outcome, leaves the check
\* button enabled and the loader hidden, and, every outstanding request
\* settling eventually, the page is again and again in a state with no
\* outstanding request and the check button enabled.
C13_AlwaysBackToIdle ==
    /\ [][Len(pending') < Len(pending)
             => ~checkBtnDisabled' /\ loaderHidden']_vars
    /\ []<>(pending = << >> /\ ~checkBtnDisabled)

\* C13, amended: every request that settles, with any outcome, leaves the
\* check button enabled and the loader hidden; with no outstanding request
\* the button is enabled and the loader hidden; and, every outstanding
\* request settling eventually, the button is enabled again and again, and
\* the page is again and again without outstanding request unless the user
\* triggers new checks again and again.
C13_SettleRestoresControls ==
    /\ [][Len(pending') < Len(pending)
             => ~checkBtnDisabled' /\ loaderHidden']_vars
    /\ [](pending = << >> => ~checkBtnDisabled /\ loaderHidden)
    /\ []<>(~checkBtnDisabled /\ loaderHidden)
    /\ []<>(pending = << >> \/ lastEvent.op \in {"check", "replace"})

\* a response without matches list has thrown in the handler and the
\* controls are restored
C13_Witness ==
    /\ lastEvent.op = "nolist"
    /\ pending = << >>
    /\ ~checkBtnDisabled
    /\ loaderHidden

\* C14: right after any edit of the buffer the overlay is the escaped text
\* of the current buffer and holds no issue span, whatever it showed
\* before the edit.
C14_EditShowsPlainEscapedBuffer ==
    lastEvent.op = "input"
        => /\ Marks(highlights) = << >>
           /\ Stripped(highlights) = Escaped(editorValue)

\* an edit to a buffer with markup characters while the last answer, which
\* had put spans into the overlay, is still the Issue Set
C14_Witness ==
    /\ lastEvent.op = "input"
    /\ Len(currentMatches) = 2
    /\ editorValue = << "a", "<", "&" >>
    /\ Marks(highlights) = << >>

\* C15: once every outstanding request has settled, the Issue Set is the
\* list of matches of the successful response that settled last, whatever
\* the order in which the overlapping requests were sent.
C15_LastSuccessWins ==
    (pending = << >> /\ lastSuccess.any)
        => /\ matchesDefined
           /\ currentMatches = lastSuccess.matches

\* C16: a failed request raises exactly one error notification and sends no
\* request; the only steps that send a request are a click on the check
\* button and an applied replacement, and each of them sends at most one,
\* so the requests sent never outnumber the triggers.
C16_FailureIsTerminal ==
    [][/\ lastEvent'.op \in {"transport", "status", "nolist", "unparseable"}
            => /\ lastEvent'.alerts = 1
               /\ Len(pending') = Len(pending) - 1
               /\ \E k \in 1..Len(pending) : pending' = Settled(k)
       /\ lastEvent'.op \notin {"transport", "status", "nolist", "unparseable"}
            => lastEvent'.alerts = 0
       /\ Len(pending') > Len(pending)
            => /\ lastEvent'.op \in {"check", "replace"}
               /\ Len(pending') = Len(pending) + 1]_vars

\* a failed request has settled and nothing is outstanding after it
C16_Witness ==
    /\ lastEvent.op \in {"transport", "status"}
    /\ lastEvent.alerts = 1
    /\ pending = << >>

\* C17: after every successful check with a non-empty Issue Set the badge
\* is visible, shows the number of issues and has the warning treatment
\* exactly when no issue of the Issue Set is a misspelling, whatever
\* treatment an earlier check had set.
C17_BadgeCountAndTreatment ==
    (lastEvent.op = "success" /\ Len(lastEvent.matches) > 0)
        => /\ ~badge.hidden
           /\ badge.text = Len(currentMatches)
           /\ badge.warning
                <=> (\A k \in 1..Len(currentMatches) :
                        currentMatches[k].issueType # "misspelling")

\* an answer with a misspelling and another issue: no warning treatment
C17_Witness ==
    /\ lastEvent.op = "success"
    /\ Len(currentMatches) = 2
    /\ currentMatches[1].issueType = "misspelling"
    /\ currentMatches[2].issueType # "misspelling"
    /\ ~badge.warning
    /\ ~badge.hidden

\* C18: whenever the overlay holds an issue span, every issue of the Issue
\* Set comes from a check of exactly the text now in the buffer.
C18_SpansBelongToBuffer ==
    Marks(highlights) # << >>
        => \A k \in 1..Len(currentMatches) :
              currentMatches[k].context.text = editorValue

\* C19: a replacement is spliced into the buffer only when every issue of
\* the Issue Set comes from a check of the text the buffer holds at the
\* click.
C19_ReplacementUsesCurrentOffsets ==
    [][lastEvent'.op = "replace"
          => \A k \in 1..Len(currentMatches) :
                currentMatches[k].context.text = editorValue]_vars

\* C20: a check that ends with the error notification leaves the Issue Set
\* as it was before the response was handled, and the Issue Set is a
\* sequence of issues in every reachable state.
C20_ErrorKeepsIssueSet ==
    /\ [][lastEvent'.alerts = 1
             => /\ currentMatches' = currentMatches
                /\ matchesDefined' = matchesDefined]_vars
    /\ [] matchesDefined

====
